---- MODULE Spec2Model ----
(***************************************************************************)
(* axum-inertia: the server side of the inertia.js protocol for axum.      *)
(*                                                                         *)
(* The model follows one request through the crate:                        *)
(*   Arrive   the request parts (method, path, headers) reach the router   *)
(*   Extract  axum runs the extractor Inertia::from_request_parts, which   *)
(*            runs Request::from_request_parts and the asset-version check *)
(*   Handler  the handler body runs and calls Inertia::render              *)
(*   Respond  axum calls Response::into_response on what render returned   *)
(*   Close    the connection is ready for its next request                 *)
(*                                                                         *)
(* Text is a sequence of one-character strings, so that splitting and      *)
(* comparing header values is computed and not assumed.  A header value is *)
(* a sequence of bytes; the byte "0xFF" is not visible ASCII.  Option<T>   *)
(* is <<>> (None) or <<v>> (Some(v)).                                      *)
(***************************************************************************)
EXTENDS Naturals, Sequences, FiniteSets, TLC

VARIABLES conn, config

vars == <<conn, config>>

\* ------------------------------------------------------------------ bounds

\* Longest X-Inertia-Partial-Data value the clients send.
MaxLen == 3

\* Connections served concurrently in SpecPair.
NumConns == 2

\* ------------------------------------------------------------ Option/Result

None == <<>>

Some(v) == <<v>>

Ok(v) == [ok |-> TRUE, val |-> v]

Err(e) == [ok |-> FALSE, err |-> e]

\* ------------------------------------------------------------- status codes

BAD_REQUEST == 400

CONFLICT == 409

OK == 200

\* ------------------------------------------------------------------- text

SeqsUpTo(S, n) == UNION {[1..k -> S] : k \in 0..n}

\* The bytes HeaderValue::to_str accepts, among the bytes the clients send.
VisibleAscii ==
    {"a", ",", " ", "t", "r", "u", "e", "T", "f", "l", "s", "1", "2", "X", "/", "b"}

\* HeaderValue::to_str fails on any byte that is not visible ASCII
to_str(hv) ==
    IF \A i \in 1..Len(hv) : hv[i] \in VisibleAscii
    THEN Ok(hv)
    ELSE Err("ToStrError")

\* An empty response header map; the model tracks the protocol headers and the
\* content type.
HeaderMap_new ==
    [XInertia |-> None, XInertiaVersion |-> None, XInertiaLocation |-> None,
     ContentType |-> None]

header_absent_on_error(h) ==
    IF h = None THEN Ok(None)
    ELSE LET r == to_str(h[1])
         IN  IF r.ok THEN Ok(Some(r.val)) ELSE Ok(None)

\* headers.get(name).map(|s| s.to_str()...).transpose().map_err(|_| (400, empty))
header_text(h) ==
    IF h = None THEN Ok(None)
    ELSE LET r == to_str(h[1])
         IN  IF r.ok THEN Ok(Some(r.val))
             ELSE Err([status |-> BAD_REQUEST, headers |-> HeaderMap_new])

\* str::split(","): the pieces between the commas, empty pieces included
RECURSIVE split_from(_, _, _)
split_from(s, i, cur) ==
    IF i > Len(s) THEN <<cur>>
    ELSE IF s[i] = "," THEN <<cur>> \o split_from(s, i + 1, <<>>)
    ELSE split_from(s, i + 1, Append(cur, s[i]))

Trim(p) == SelectSeq(p, LAMBDA c : c # " ")

RECURSIVE Dedup(_)
Dedup(ps) ==
    IF ps = <<>> THEN <<>>
    ELSE LET rest == Dedup(Tail(ps))
         IN  IF \E i \in 1..Len(rest) : rest[i] = Head(ps)
             THEN rest
             ELSE <<Head(ps)>> \o rest

split_trimmed(s) ==
    LET ps == split_from(s, 1, <<>>) IN [i \in 1..Len(ps) |-> Trim(ps[i])]

split_dedup(s) == Dedup(split_from(s, 1, <<>>))

split(s) == split_from(s, 1, <<>>)

\* ------------------------------------------------- Request (request.rs)

eq_true_ignore_case(s) == s \in {<<"t", "r", "u", "e">>, <<"T", "r", "u", "e">>}

eq_true(s) == s = <<"t", "r", "u", "e">>

partial_of_data_alone(partial_data, partial_component) ==
    IF partial_data # None
    THEN Some([props |-> partial_data[1],
               component |-> IF partial_component = None THEN <<>>
                             ELSE partial_component[1]])
    ELSE None

match_partial(partial_data, partial_component) ==
    IF partial_data # None /\ partial_component # None
    THEN Some([props |-> partial_data[1], component |-> partial_component[1]])
    ELSE None

Request_from_request_parts_partial_needs_xhr(parts) ==
    LET url == parts.path
        x == header_text(parts.headers.XInertia)
        v == header_text(parts.headers.XInertiaVersion)
        d == header_text(parts.headers.XInertiaPartialData)
        c == header_text(parts.headers.XInertiaPartialComponent)
    IN  IF ~x.ok THEN x
        ELSE IF ~v.ok THEN v
        ELSE IF ~d.ok THEN d
        ELSE IF ~c.ok THEN c
        ELSE LET is_xhr == IF x.val = None THEN FALSE ELSE eq_true(x.val[1])
                 partial_data == IF d.val = None THEN None ELSE Some(split(d.val[1]))
             IN  Ok([is_xhr |-> is_xhr,
                     version |-> v.val,
                     url |-> url,
                     partial |-> IF is_xhr THEN match_partial(partial_data, c.val)
                                 ELSE None])

Request_from_request_parts(parts) ==
    LET url == parts.path
        x == header_text(parts.headers.XInertia)
        v == header_text(parts.headers.XInertiaVersion)
        d == header_text(parts.headers.XInertiaPartialData)
        c == header_text(parts.headers.XInertiaPartialComponent)
    IN  IF ~x.ok THEN x
        ELSE IF ~v.ok THEN v
        ELSE IF ~d.ok THEN d
        ELSE IF ~c.ok THEN c
        ELSE LET is_xhr == IF x.val = None THEN FALSE ELSE eq_true(x.val[1])
                 version == v.val
                 partial_data == IF d.val = None THEN None ELSE Some(split(d.val[1]))
                 partial_component == c.val
             IN  Ok([is_xhr |-> is_xhr,
                     version |-> version,
                     url |-> url,
                     partial |-> match_partial(partial_data, partial_component)])

\* ------------------------------------------------ InertiaConfig (config.rs)

InertiaConfig_new(version, layout) == [version |-> version, layout |-> layout]

InertiaConfig_version(cfg) == cfg.version

\* The builder state a vite layout closes over.
ViteLayout ==
    [html_lang |-> <<"e", "n">>, html_head |-> <<"<title>Vite</title>">>]

\* vite::Development::into_config: no asset version
Development_into_config == InertiaConfig_new(None, ViteLayout)

\* vite::Production::into_config: the version is the hash of the manifest
Production_into_config(manifest_hash) ==
    InertiaConfig_new(Some(manifest_hash), ViteLayout)

\* ------------------------------------------------------ Inertia (lib.rs)

version_mismatch_any_method(parts, request, cfg) ==
    /\ request.is_xhr
    /\ InertiaConfig_version(cfg) # None
    /\ request.version # InertiaConfig_version(cfg)

version_mismatch_unconfigured(parts, request, cfg) ==
    /\ parts.method = "GET"
    /\ request.is_xhr
    /\ request.version # InertiaConfig_version(cfg)

\* The condition of the asset-version check.
version_mismatch(parts, request, cfg) ==
    /\ parts.method = "GET"
    /\ request.is_xhr
    /\ InertiaConfig_version(cfg) # None
    /\ request.version # InertiaConfig_version(cfg)

conflict_rejection_no_location(parts) ==
    [status |-> CONFLICT, headers |-> HeaderMap_new]

\* The rejection of the asset-version check: 409 and X-Inertia-Location.
conflict_rejection(parts) ==
    [status |-> CONFLICT,
     headers |-> [HeaderMap_new EXCEPT !.XInertiaLocation = Some(parts.path)]]

Inertia_new(request, cfg) == [request |-> request, config |-> cfg]

Inertia_from_request_parts_version_first(parts, state) ==
    LET cfg == state
        x == header_absent_on_error(parts.headers.XInertia).val
        v == header_absent_on_error(parts.headers.XInertiaVersion).val
        early == [is_xhr |-> x # None /\ eq_true(x[1]), version |-> v]
        r == Request_from_request_parts(parts)
    IN  IF version_mismatch(parts, early, cfg)
        THEN Err(conflict_rejection(parts))
        ELSE IF ~r.ok THEN r
        ELSE Ok(Inertia_new(r.val, cfg))

Inertia_from_request_parts(parts, state) ==
    LET cfg == state
        r == Request_from_request_parts(parts)
    IN  IF ~r.ok THEN r
        ELSE IF version_mismatch(parts, r.val, cfg)
             THEN Err(conflict_rejection(parts))
             ELSE Ok(Inertia_new(r.val, cfg))

\* ---------------------------------------------------------- Props (props.rs)

\* serde_json::to_value of the handler's props value: its object, or an error
\* for a value serde cannot turn into JSON.
serde_json_to_value(value) ==
    IF value.serializable THEN Ok(value.entries) ELSE Err("serde_json::Error")

\* The entries of an object whose key is among the requested props.
FilterEntries(entries, partial) ==
    SelectSeq(entries, LAMBDA e : \E i \in 1..Len(partial.props) : partial.props[i] = e[1])

Props_serialize_filtered(props, partial) ==
    LET r == serde_json_to_value(props)
    IN  IF r.ok /\ partial # None THEN Ok(FilterEntries(r.val, partial[1])) ELSE r

Props_serialize_empty_on_partial(props, partial) ==
    LET r == serde_json_to_value(props)
    IN  IF r.ok /\ partial # None THEN Ok(<<>>) ELSE r

\* The blanket implementation of Props for every T: Serialize.
Props_serialize(props, partial) == serde_json_to_value(props)

\* request.partial.as_ref(): the partial render hands to Props::serialize.
partial_as_ref(request) == request.partial

render_echoing_client_version(self, component, props) ==
    LET request == self.request
        value == Props_serialize(props, partial_as_ref(request))
    IN  IF ~value.ok THEN Err("panic: serialization failure")
        ELSE Ok([page |-> [component |-> component,
                           props |-> value.val,
                           url |-> request.url,
                           version |-> request.version],
                 request |-> request,
                 html_head |-> self.config.layout.html_head,
                 html_lang |-> self.config.layout.html_lang,
                 version |-> InertiaConfig_version(self.config)])

render_page_without_version(self, component, props) ==
    LET request == self.request
        value == Props_serialize(props, partial_as_ref(request))
    IN  IF ~value.ok THEN Err("panic: serialization failure")
        ELSE Ok([page |-> [component |-> component,
                           props |-> value.val,
                           url |-> request.url,
                           version |-> None],
                 request |-> request,
                 html_head |-> self.config.layout.html_head,
                 html_lang |-> self.config.layout.html_lang,
                 version |-> InertiaConfig_version(self.config)])

\* Inertia::render.  Err models the panic of expect("serialization failure").
\* render hands the page, the request and the configuration to the Response;
\* the Response of response.rs reads them as its fields version, html_head and
\* html_lang, which are the configured version and the layout's head and lang.
render(self, component, props) ==
    LET request == self.request
        url == request.url
        value == Props_serialize(props, partial_as_ref(request))
    IN  IF ~value.ok THEN Err("panic: serialization failure")
        ELSE LET page == [component |-> component,
                          props |-> value.val,
                          url |-> url,
                          version |-> InertiaConfig_version(self.config)]
             IN  Ok([page |-> page,
                     request |-> request,
                     html_head |-> self.config.layout.html_head,
                     html_lang |-> self.config.layout.html_lang,
                     version |-> InertiaConfig_version(self.config)])

\* ----------------------------------------------------- Response (response.rs)

\* serde_json's text of a string.  The texts of the model hold no character
\* that JSON escapes.
json_string(s) == <<"\"">> \o s \o <<"\"">>

\* serde_json's text of an object with string values: {"k":"v",...}
RECURSIVE json_entries(_)
json_entries(es) ==
    IF es = <<>> THEN <<>>
    ELSE json_string(Head(es)[1]) \o <<":">> \o json_string(Head(es)[2])
         \o (IF Tail(es) = <<>> THEN <<>> ELSE <<",">>)
         \o json_entries(Tail(es))

json_object(es) == <<"{">> \o json_entries(es) \o <<"}">>

\* serde_json::to_string(&page), by #[derive(Serialize)] on Page: the four
\* fields in declaration order, a None version as null.
serde_json_to_string(page) ==
    <<"{", "\"component\":">> \o json_string(page.component)
    \o <<",", "\"props\":">> \o json_object(page.props)
    \o <<",", "\"url\":">> \o json_string(page.url)
    \o <<",", "\"version\":">>
    \o (IF page.version = None THEN <<"null">> ELSE json_string(page.version[1]))
    \o <<"}">>

initial_html_without_version(self) ==
    <<"<!doctype html><html lang=\"">> \o self.html_lang
    \o <<"\"><head>">> \o self.html_head
    \o <<"</head><body><div id=\"app\" data-page='">>
    \o serde_json_to_string([self.page EXCEPT !.version = None])
    \o <<"'></div></body></html>">>

\* Response::initial_html: the document of a full load, the page embedded in
\* the data-page attribute.
initial_html(self) ==
    <<"<!doctype html><html lang=\"">> \o self.html_lang
    \o <<"\"><head>">> \o self.html_head
    \o <<"</head><body><div id=\"app\" data-page='">>
    \o serde_json_to_string(self.page)
    \o <<"'></div></body></html>">>

into_response_always_marked(self) ==
    LET headers == IF self.version # None
                   THEN [HeaderMap_new EXCEPT !.XInertiaVersion = Some(self.version[1])]
                   ELSE HeaderMap_new
    IN  IF self.request.is_xhr
        THEN [status |-> OK,
              headers |-> [headers EXCEPT !.XInertia = Some(<<"t", "r", "u", "e">>),
                                          !.ContentType = Some("application/json")],
              body |-> serde_json_to_string(self.page)]
        ELSE [status |-> OK,
              headers |-> [headers EXCEPT !.XInertia = Some(<<"t", "r", "u", "e">>),
                                          !.ContentType = Some("text/html; charset=utf-8")],
              body |-> initial_html(self)]

into_response_version_on_json_only(self) ==
    IF self.request.is_xhr
    THEN [status |-> OK,
          headers |-> [HeaderMap_new EXCEPT
                          !.XInertiaVersion = self.version,
                          !.XInertia = Some(<<"t", "r", "u", "e">>),
                          !.ContentType = Some("application/json")],
          body |-> serde_json_to_string(self.page)]
    ELSE [status |-> OK,
          headers |-> [HeaderMap_new EXCEPT
                          !.ContentType = Some("text/html; charset=utf-8")],
          body |-> initial_html(self)]

\* Response::into_response.  Json and Html answer 200 with their content type.
into_response(self) ==
    LET headers == IF self.version # None
                   THEN [HeaderMap_new EXCEPT !.XInertiaVersion = Some(self.version[1])]
                   ELSE HeaderMap_new
    IN  IF self.request.is_xhr
        THEN [status |-> OK,
              headers |-> [headers EXCEPT !.XInertia = Some(<<"t", "r", "u", "e">>),
                                          !.ContentType = Some("application/json")],
              body |-> serde_json_to_string(self.page)]
        ELSE [status |-> OK,
              headers |-> [headers EXCEPT !.ContentType = Some("text/html; charset=utf-8")],
              body |-> initial_html(self)]

\* (StatusCode, HeaderMap)::into_response, the rejection of the extractors.
rejection_into_response(rejection) ==
    [status |-> rejection.status, headers |-> rejection.headers, body |-> <<>>]

\* ------------------------------------------------------------ the clients

Methods == {"GET", "POST"}

Paths == {<<"/", "a">>, <<"/", "b", "/", "a">>}

InvalidValue == <<"0xFF">>

XInertiaValues ==
    {None, Some(<<"t", "r", "u", "e">>), Some(<<"T", "r", "u", "e">>),
     Some(<<"f", "a", "l", "s", "e">>), Some(InvalidValue)}

XInertiaVersionValues == {None, Some(<<"1">>), Some(<<"2">>), Some(InvalidValue)}

PartialDataValues ==
    {None, Some(InvalidValue)} \cup {Some(d) : d \in SeqsUpTo({"a", ",", " "}, MaxLen)}

PartialComponentValues == {None, Some(<<"X">>), Some(InvalidValue)}

\* What the clients of a single connection send.
Requests ==
    [method : Methods,
     path : Paths,
     headers : [XInertia : XInertiaValues,
                XInertiaVersion : XInertiaVersionValues,
                XInertiaPartialData : PartialDataValues,
                XInertiaPartialComponent : PartialComponentValues]]

\* What the clients of concurrent connections send: navigations of one route.
PairRequests ==
    [method : {"GET"},
     path : {<<"/", "a">>},
     headers : [XInertia : {None, Some(<<"t", "r", "u", "e">>)},
                XInertiaVersion : {None, Some(<<"1">>), Some(<<"2">>), Some(InvalidValue)},
                XInertiaPartialData : {None},
                XInertiaPartialComponent : {None}]]

\* What the handlers pass to render.
Components == {<<"A">>, <<"B">>}

PropsValues ==
    {[serializable |-> TRUE, entries |-> << <<(<<"a">>), (<<"1">>)>> >>],
     [serializable |-> TRUE,
      entries |-> << <<(<<"a">>), (<<"1">>)>>, <<(<<"b">>), (<<"2">>)>> >>],
     [serializable |-> FALSE, entries |-> <<>>]}

\* The configurations a server is started with.
Configs == {Development_into_config, Production_into_config(<<"1">>)}

\* --------------------------------------------------------- the state machine

Idle ==
    [pc |-> "idle", parts |-> None, inertia |-> None, args |-> None,
     serialize_arg |-> None, response |-> None, http |-> None, handler_runs |-> 0]

Conns == DOMAIN conn

Inputs == IF Cardinality(Conns) = 1 THEN Requests ELSE PairRequests

TypeOK ==
    /\ config \in Configs
    /\ \A s \in Conns :
        conn[s].pc \in {"idle", "received", "extracted", "rendered", "responded",
                        "panicked"}

Init ==
    /\ config \in Configs
    /\ conn = [s \in {1} |-> Idle]

InitPair ==
    /\ config \in Configs
    /\ conn = [s \in 1..NumConns |-> Idle]

\* A request reaches the router on connection s.
Arrive(s) ==
    /\ conn[s].pc = "idle"
    /\ \E parts \in Inputs :
        conn' = [conn EXCEPT ![s] = [Idle EXCEPT !.pc = "received",
                                                 !.parts = Some(parts)]]
    /\ UNCHANGED config

Extract_adopting_client_version(s) ==
    /\ conn[s].pc = "received"
    /\ LET r == Inertia_from_request_parts(conn[s].parts[1], config)
           q == Request_from_request_parts(conn[s].parts[1])
       IN  /\ conn' = [conn EXCEPT ![s] =
                IF r.ok
                THEN [@ EXCEPT !.pc = "extracted", !.inertia = Some(r.val)]
                ELSE [@ EXCEPT !.pc = "responded",
                               !.http = Some(rejection_into_response(r.err))]]
           /\ config' = IF q.ok /\ q.val.version # None /\ config.version # None
                        THEN [config EXCEPT !.version = q.val.version]
                        ELSE config

\* axum runs the extractor of the handler's Inertia argument; a rejection is
\* the response and the handler is not called.
Extract(s) ==
    /\ conn[s].pc = "received"
    /\ LET r == Inertia_from_request_parts(conn[s].parts[1], config)
       IN  conn' = [conn EXCEPT ![s] =
                IF r.ok
                THEN [@ EXCEPT !.pc = "extracted", !.inertia = Some(r.val)]
                ELSE [@ EXCEPT !.pc = "responded",
                               !.http = Some(rejection_into_response(r.err))]]
    /\ UNCHANGED config

\* The handler body runs: i.render(component, props).
Handler(s) ==
    /\ conn[s].pc = "extracted"
    /\ \E component \in Components, props \in PropsValues :
        LET r == render(conn[s].inertia[1], component, props)
        IN  conn' = [conn EXCEPT ![s] =
                IF r.ok
                THEN [@ EXCEPT !.pc = "rendered", !.response = Some(r.val),
                               !.args = Some(<<component, props>>),
                               !.serialize_arg =
                                    Some(partial_as_ref(conn[s].inertia[1].request)),
                               !.handler_runs = @ + 1]
                ELSE [@ EXCEPT !.pc = "panicked",
                               !.args = Some(<<component, props>>),
                               !.serialize_arg =
                                    Some(partial_as_ref(conn[s].inertia[1].request)),
                               !.handler_runs = @ + 1]]
    /\ UNCHANGED config

\* axum turns what the handler returned into the HTTP response.
Respond(s) ==
    /\ conn[s].pc = "rendered"
    /\ conn' = [conn EXCEPT ![s] =
            [@ EXCEPT !.pc = "responded",
                      !.http = Some(into_response(conn[s].response[1]))]]
    /\ UNCHANGED config

\* The exchange is over; the connection takes its next request.
Close(s) ==
    /\ conn[s].pc \in {"responded", "panicked"}
    /\ conn' = [conn EXCEPT ![s] = Idle]
    /\ UNCHANGED config

Next ==
    \/ \E s \in Conns : Arrive(s)
    \/ \E s \in Conns : Extract(s)
    \/ \E s \in Conns : Handler(s)
    \/ \E s \in Conns : Respond(s)
    \/ \E s \in Conns : Close(s)

Spec == Init /\ [][Next]_vars

SpecPair == InitPair /\ [][Next]_vars

\* ------------------------------------------------------------------ claims

TrueText == <<"t", "r", "u", "e">>

\* A header as the client sent it is absent or holds only text bytes.
Readable(h) == h = None \/ \A i \in 1..Len(h[1]) : h[1][i] # "0xFF"

HeadersParse(parts) ==
    /\ Readable(parts.headers.XInertia)
    /\ Readable(parts.headers.XInertiaVersion)
    /\ Readable(parts.headers.XInertiaPartialData)
    /\ Readable(parts.headers.XInertiaPartialComponent)

\* The extractor has run for the request on connection s.
Extracted(s) == conn[s].pc \notin {"idle", "received"}

Answered(s, status) == conn[s].http # None /\ conn[s].http[1].status = status

\* The extractor let the request through to the handler.
Proceeds(s) == conn[s].inertia # None /\ ~Answered(s, CONFLICT) /\ ~Answered(s, BAD_REQUEST)

\* The four conditions of a version conflict, read off the request as sent.
ConflictExpected(parts) ==
    /\ parts.method = "GET"
    /\ parts.headers.XInertia = Some(TrueText)
    /\ config.version # None
    /\ parts.headers.XInertiaVersion # config.version

\* C1: a request whose headers parse is answered with a version conflict iff
\* it is a GET, X-Inertia is "true", a server version is configured and the
\* client version (absent included) differs from it; otherwise it proceeds
\* to the handler.
C1_ConflictIffFourConditions ==
    \A s \in Conns :
        (Extracted(s) /\ HeadersParse(conn[s].parts[1])) =>
            /\ Answered(s, CONFLICT) <=> ConflictExpected(conn[s].parts[1])
            /\ ~ConflictExpected(conn[s].parts[1]) => Proceeds(s)
            /\ ConflictExpected(conn[s].parts[1]) => ~Proceeds(s)

\* A GET protocol request without X-Inertia-Version was answered 409.
C1_Witness ==
    \E s \in Conns :
        /\ Answered(s, CONFLICT)
        /\ conn[s].parts[1].headers.XInertiaVersion = None

\* C2: a version conflict is answered 409 with X-Inertia-Location equal to
\* the path of the request, and the handler body does not run for it: no
\* render, no props serialization.
C2_ConflictShortCircuits ==
    \A s \in Conns :
        /\ (Extracted(s) /\ HeadersParse(conn[s].parts[1])
              /\ ConflictExpected(conn[s].parts[1])) =>
                /\ conn[s].pc = "responded"
                /\ Answered(s, CONFLICT)
        /\ Answered(s, CONFLICT) =>
                /\ conn[s].http[1].headers.XInertiaLocation = Some(conn[s].parts[1].path)
                /\ conn[s].http[1].headers.XInertia = None
                /\ conn[s].handler_runs = 0
                /\ conn[s].args = None
                /\ conn[s].response = None

\* A 409 for the longer path, carrying it in X-Inertia-Location.
C2_Witness ==
    \E s \in Conns :
        /\ Answered(s, CONFLICT)
        /\ conn[s].parts[1].path = <<"/", "b", "/", "a">>
        /\ conn[s].parts[1].headers.XInertiaVersion = Some(<<"2">>)
        /\ conn[s].handler_runs = 0

\* C3: with no server version configured, as for Development::into_config,
\* no request is answered 409.
C3_NoVersionNoConflict ==
    /\ InertiaConfig_version(Development_into_config) = None
    /\ InertiaConfig_version(config) = None =>
            \A s \in Conns : ~Answered(s, CONFLICT)

\* A GET protocol request with a client version proceeded under a
\* development configuration.
C3_Witness ==
    \E s \in Conns :
        /\ config = Development_into_config
        /\ conn[s].parts # None
        /\ conn[s].parts[1].method = "GET"
        /\ conn[s].parts[1].headers.XInertia = Some(TrueText)
        /\ conn[s].parts[1].headers.XInertiaVersion = Some(<<"1">>)
        /\ conn[s].pc = "responded"
        /\ Answered(s, OK)

\* C4: is_xhr is true iff X-Inertia is present and equals "true" exactly; an
\* absent header or another readable value gives false and no error.
C4_IsXhrIffLiteralTrue ==
    \A s \in Conns :
        /\ conn[s].inertia # None =>
              (conn[s].inertia[1].request.is_xhr
                  <=> conn[s].parts[1].headers.XInertia = Some(TrueText))
        /\ (Extracted(s) /\ HeadersParse(conn[s].parts[1])
              /\ conn[s].parts[1].headers.XInertia # Some(TrueText)) =>
                /\ Proceeds(s)
                /\ ~conn[s].inertia[1].request.is_xhr

\* X-Inertia: True was parsed to is_xhr = false.
C4_Witness ==
    \E s \in Conns :
        /\ conn[s].inertia # None
        /\ conn[s].parts[1].headers.XInertia = Some(<<"T", "r", "u", "e">>)
        /\ ~conn[s].inertia[1].request.is_xhr

\* The request without its two partial headers.
WithoutPartialHeaders(parts) ==
    [parts EXCEPT !.headers.XInertiaPartialData = None,
                  !.headers.XInertiaPartialComponent = None]

ExactlyOnePartialHeader(parts) ==
    (parts.headers.XInertiaPartialData = None)
        # (parts.headers.XInertiaPartialComponent = None)

\* C5: partial is Some iff both partial headers are present; with exactly one
\* of them the partial is None and the request is not rejected: the extractor
\* answers as for the same request without partial headers.
C5_PartialNeedsBothHeaders ==
    \A s \in Conns :
        /\ conn[s].inertia # None =>
              (conn[s].inertia[1].request.partial # None
                  <=> /\ conn[s].parts[1].headers.XInertiaPartialData # None
                      /\ conn[s].parts[1].headers.XInertiaPartialComponent # None)
        /\ (Extracted(s) /\ HeadersParse(conn[s].parts[1])
              /\ ExactlyOnePartialHeader(conn[s].parts[1])) =>
                LET bare == Inertia_from_request_parts(
                                WithoutPartialHeaders(conn[s].parts[1]), config)
                IN  /\ ~Answered(s, BAD_REQUEST)
                    /\ bare.ok => conn[s].inertia = Some(bare.val)
                    /\ ~bare.ok =>
                          /\ conn[s].inertia = None
                          /\ conn[s].pc = "responded"
                          /\ conn[s].http = Some(rejection_into_response(bare.err))

\* A request with X-Inertia-Partial-Data alone reached the handler with
\* partial None.
C5_Witness ==
    \E s \in Conns :
        /\ conn[s].inertia # None
        /\ conn[s].parts[1].headers.XInertiaPartialData = Some(<<"a", ",", "a">>)
        /\ conn[s].parts[1].headers.XInertiaPartialComponent = None
        /\ conn[s].inertia[1].request.partial = None
        /\ conn[s].handler_runs = 1

\* The pieces joined with ','.
RECURSIVE Join(_)
Join(ps) ==
    IF ps = <<>> THEN <<>>
    ELSE IF Len(ps) = 1 THEN ps[1]
    ELSE ps[1] \o <<",">> \o Join(Tail(ps))

\* C6: with both partial headers present, Partial.props is the
\* X-Inertia-Partial-Data value split on ',': no piece holds a comma, the
\* pieces joined with ',' give back the header value (so they are in header
\* order, untrimmed, duplicates kept), and Partial.component is the
\* X-Inertia-Partial-Component value.
C6_PartialIsTheSplitHeader ==
    \A s \in Conns :
        (/\ conn[s].inertia # None
         /\ conn[s].parts[1].headers.XInertiaPartialData # None
         /\ conn[s].parts[1].headers.XInertiaPartialComponent # None) =>
            /\ conn[s].inertia[1].request.partial # None
            /\ LET partial == conn[s].inertia[1].request.partial[1]
                   data == conn[s].parts[1].headers.XInertiaPartialData[1]
               IN  /\ partial.component = conn[s].parts[1].headers.XInertiaPartialComponent[1]
                   /\ Len(partial.props) >= 1
                   /\ \A i \in 1..Len(partial.props) :
                        \A j \in 1..Len(partial.props[i]) : partial.props[i][j] # ","
                   /\ Join(partial.props) = data

\* "a,a" was parsed to the two pieces "a" and "a".
C6_Witness ==
    \E s \in Conns :
        /\ conn[s].inertia # None
        /\ conn[s].parts[1].headers.XInertiaPartialData = Some(<<"a", ",", "a">>)
        /\ conn[s].inertia[1].request.partial # None
        /\ conn[s].inertia[1].request.partial[1].props = << <<"a">>, <<"a">> >>
        /\ conn[s].inertia[1].request.partial[1].component = <<"X">>

\* C7: a request with a protocol header that is present but not text is
\* answered 400 and its handler never runs, whatever the other headers are;
\* a request whose present protocol headers are all text is not answered 400.
C7_MalformedHeaderIs400 ==
    \A s \in Conns :
        Extracted(s) =>
            /\ ~HeadersParse(conn[s].parts[1]) =>
                  /\ conn[s].pc = "responded"
                  /\ Answered(s, BAD_REQUEST)
                  /\ conn[s].inertia = None
                  /\ conn[s].handler_runs = 0
                  /\ conn[s].response = None
            /\ HeadersParse(conn[s].parts[1]) => ~Answered(s, BAD_REQUEST)

\* A request whose only unreadable header is X-Inertia-Partial-Component, and
\* which would otherwise be a version conflict, was answered 400.
C7_Witness ==
    \E s \in Conns :
        /\ Answered(s, BAD_REQUEST)
        /\ conn[s].parts[1].headers.XInertiaPartialComponent = Some(InvalidValue)
        /\ Readable(conn[s].parts[1].headers.XInertia)
        /\ Readable(conn[s].parts[1].headers.XInertiaVersion)
        /\ Readable(conn[s].parts[1].headers.XInertiaPartialData)
        /\ conn[s].handler_runs = 0

\* Connection s holds the HTTP response of a rendered Response.
Rendered(s) ==
    conn[s].pc = "responded" /\ conn[s].response # None /\ conn[s].http # None

ProtocolRequest(s) == conn[s].parts[1].headers.XInertia = Some(TrueText)

DataPageOpen == "</head><body><div id=\"app\" data-page='"

DataPageClose == "'></div></body></html>"

\* The text of the data-page attribute of an HTML document.
data_page(body) ==
    LET i == CHOOSE k \in 1..Len(body) : body[k] = DataPageOpen
        j == CHOOSE k \in 1..Len(body) : body[k] = DataPageClose
    IN  SubSeq(body, i + 1, j - 1)

IsHtmlDocument(body) ==
    /\ Len(body) >= 2
    /\ body[1] = "<!doctype html><html lang=\""
    /\ body[Len(body)] = DataPageClose
    /\ \E k \in 1..Len(body) : body[k] = DataPageOpen

\* C8: a rendered response has status 200; for a protocol request it is the
\* JSON of the Page with X-Inertia: true, otherwise an HTML document without
\* the X-Inertia header.
C8_JsonOrHtmlByXInertia ==
    \A s \in Conns :
        Rendered(s) =>
            LET http == conn[s].http[1]
            IN  /\ http.status = OK
                /\ (http.headers.XInertia = Some(TrueText)) <=> ProtocolRequest(s)
                /\ ProtocolRequest(s) =>
                      /\ http.headers.ContentType = Some("application/json")
                      /\ http.body = serde_json_to_string(conn[s].response[1].page)
                /\ ~ProtocolRequest(s) =>
                      /\ http.headers.XInertia = None
                      /\ http.headers.ContentType = Some("text/html; charset=utf-8")
                      /\ IsHtmlDocument(http.body)

\* A full load was answered with an HTML document and no X-Inertia header.
C8_Witness ==
    \E s \in Conns :
        /\ Rendered(s)
        /\ ~ProtocolRequest(s)
        /\ conn[s].http[1].headers.XInertia = None
        /\ IsHtmlDocument(conn[s].http[1].body)

\* C9: every rendered response, JSON or HTML, carries X-Inertia-Version equal
\* to the configured server version, and no such header when none is
\* configured.
C9_VersionHeaderOnEveryRender ==
    \A s \in Conns :
        Rendered(s) => conn[s].http[1].headers.XInertiaVersion = config.version

\* A full load under a configured version carries the version header.
C9_Witness ==
    \E s \in Conns :
        /\ Rendered(s)
        /\ ~ProtocolRequest(s)
        /\ config.version = Some(<<"1">>)
        /\ conn[s].http[1].headers.XInertiaVersion = Some(<<"1">>)

\* C10: for the same component, props value, url and server version, the
\* JSON body of a protocol request and the JSON string embedded in the HTML
\* document of a full load are the same text.
C10_SamePageInBothEnvelopes ==
    \A s1, s2 \in Conns :
        (/\ Rendered(s1) /\ Rendered(s2)
         /\ ProtocolRequest(s1) /\ ~ProtocolRequest(s2)
         /\ conn[s1].args = conn[s2].args
         /\ conn[s1].parts[1].path = conn[s2].parts[1].path) =>
            conn[s1].http[1].body = data_page(conn[s2].http[1].body)

\* Two connections hold the JSON and the HTML response of the same render
\* under a configured version.
C10_Witness ==
    \E s1, s2 \in Conns :
        /\ Rendered(s1) /\ Rendered(s2)
        /\ ProtocolRequest(s1) /\ ~ProtocolRequest(s2)
        /\ conn[s1].args = conn[s2].args
        /\ config.version # None
        /\ Len(conn[s1].http[1].body) > 0

\* The keys of a JSON object.
Keys(entries) == {entries[i][1] : i \in 1..Len(entries)}

\* The props a partial asks for.
RequestedProps(partial) == {partial.props[i] : i \in 1..Len(partial.props)}

\* Connection s holds the Response render built for a partial reload.
RenderedPartial(s) ==
    /\ conn[s].response # None
    /\ conn[s].inertia[1].request.partial # None

\* C11 as stated: for a partial reload the props of the Page hold only the
\* requested keys that exist in the full serialization, and no other key.
C11_OnlyRequestedKeys ==
    \A s \in Conns :
        RenderedPartial(s) =>
            Keys(conn[s].response[1].page.props)
                = Keys(conn[s].args[1][2].entries)
                    \cap RequestedProps(conn[s].inertia[1].request.partial[1])

\* C11 as amended: for a partial reload rendered from a plain serializable
\* value, the props of the Page hold every key of the full serialization of
\* the value, requested or not.
C11_PartialRenderKeepsEveryKey ==
    \A s \in Conns :
        RenderedPartial(s) =>
            /\ Keys(conn[s].response[1].page.props) = Keys(conn[s].args[1][2].entries)
            /\ Len(conn[s].response[1].page.props) = Len(conn[s].args[1][2].entries)

\* A partial reload asking for "a" alone was rendered with the key "b" too.
C11_Witness ==
    \E s \in Conns :
        /\ RenderedPartial(s)
        /\ RequestedProps(conn[s].inertia[1].request.partial[1]) = {<<"a">>}
        /\ <<"b">> \in Keys(conn[s].response[1].page.props)

\* C12: the default resolver ignores its partial argument: what the handler
\* got for its value under the request's partial, a page or the failure, is
\* what the resolver gives for the same value with partial None.
C12_DefaultResolverIgnoresPartial ==
    \A s \in Conns :
        conn[s].args # None =>
            LET full == Props_serialize(conn[s].args[1][2], None)
            IN  /\ full.ok <=> conn[s].response # None
                /\ ~full.ok <=> conn[s].pc = "panicked"
                /\ full.ok => conn[s].response[1].page.props = full.val

\* A render under a partial that names none of the value's keys.
C12_Witness ==
    \E s \in Conns :
        /\ RenderedPartial(s)
        /\ RequestedProps(conn[s].inertia[1].request.partial[1]) = {<<>>}
        /\ Len(conn[s].response[1].page.props) = 2

\* The handler of connection s called render with a value serde cannot
\* serialize.
SerializationFailed(s) ==
    conn[s].args # None /\ ~serde_json_to_value(conn[s].args[1][2]).ok

\* C13: when serializing the props fails during render, the client is
\* answered with an internal error (500), never with a 200.
C13_SerializationFailureIs500 ==
    \A s \in Conns :
        SerializationFailed(s) =>
            /\ conn[s].http # None
            /\ conn[s].http[1].status = 500

\* C14: in the Page built by render, url is the path of the request,
\* version is the configured server version (None when none is configured)
\* and component is the name the handler passed; none of them comes from a
\* request header.
C14_PageEchoesPathConfigAndHandler ==
    \A s \in Conns :
        conn[s].response # None =>
            LET page == conn[s].response[1].page
            IN  /\ page.url = conn[s].parts[1].path
                /\ page.url = conn[s].inertia[1].request.url
                /\ page.version = config.version
                /\ page.component = conn[s].args[1][1]

\* A page was built for a request whose X-Inertia-Version and
\* X-Inertia-Partial-Component differ from the page's version and component.
C14_Witness ==
    \E s \in Conns :
        /\ conn[s].response # None
        /\ conn[s].parts[1].headers.XInertiaVersion = Some(<<"2">>)
        /\ conn[s].parts[1].headers.XInertiaPartialComponent = Some(<<"X">>)
        /\ conn[s].response[1].page.version = Some(<<"1">>)
        /\ conn[s].response[1].page.component = <<"A">>
        /\ conn[s].response[1].page.url = <<"/", "b", "/", "a">>

\* A protocol GET that holds the server's version.
UpToDateProtocolGet(parts) ==
    /\ parts.method = "GET"
    /\ parts.headers.XInertia = Some(TrueText)
    /\ parts.headers.XInertiaVersion # None
    /\ parts.headers.XInertiaVersion = config.version

\* What the extractor gives for the request of connection s handled alone.
AloneOutcome(s) == Inertia_from_request_parts(conn[s].parts[1], config)

C15_Independent ==
    /\ \A s \in Conns :
        Extracted(s) =>
            /\ UpToDateProtocolGet(conn[s].parts[1]) => ~Answered(s, CONFLICT)
            /\ AloneOutcome(s).ok =>
                  /\ conn[s].inertia = Some(AloneOutcome(s).val)
                  /\ conn[s].inertia[1].config = config
            /\ ~AloneOutcome(s).ok =>
                  /\ conn[s].inertia = None
                  /\ conn[s].http = Some(rejection_into_response(AloneOutcome(s).err))
    /\ \A s1, s2 \in Conns :
        (/\ conn[s1].parts = conn[s2].parts
         /\ conn[s1].args = conn[s2].args
         /\ conn[s1].pc = conn[s2].pc) => conn[s1] = conn[s2]

\* C15: request handling never changes the configuration and keeps no state
\* across requests: in every interleaving a protocol GET holding the server's
\* version is never answered 409, every request gets the outcome it would get
\* alone, and equal requests on different connections get equal outcomes.
C15_RequestsAreIndependent == [](C15_Independent) /\ [][config' = config]_vars

\* While one connection holds a 409, another has rendered a protocol GET
\* that holds the server's version.
C15_Witness ==
    \E s1, s2 \in Conns :
        /\ Answered(s1, CONFLICT)
        /\ Rendered(s2)
        /\ UpToDateProtocolGet(conn[s2].parts[1])
        /\ Answered(s2, OK)

\* The request would be a version conflict as far as its readable headers go.
WouldConflict(parts) ==
    /\ parts.method = "GET"
    /\ parts.headers.XInertia = Some(TrueText)
    /\ config.version # None
    /\ parts.headers.XInertiaVersion # config.version

\* C16: header parsing is decided before the version check: a request with
\* an unreadable protocol header that would otherwise conflict is answered
\* 400 without X-Inertia-Location, and every 409 is for a request all of
\* whose protocol headers parsed.
C16_ParseBeforeVersionCheck ==
    \A s \in Conns :
        /\ Answered(s, CONFLICT) => HeadersParse(conn[s].parts[1])
        /\ (Extracted(s) /\ WouldConflict(conn[s].parts[1])
              /\ ~HeadersParse(conn[s].parts[1])) =>
                /\ Answered(s, BAD_REQUEST)
                /\ conn[s].http[1].headers.XInertiaLocation = None

\* A GET protocol request with a stale version and an unreadable
\* X-Inertia-Partial-Data was answered 400.
C16_Witness ==
    \E s \in Conns :
        /\ Answered(s, BAD_REQUEST)
        /\ WouldConflict(conn[s].parts[1])
        /\ conn[s].parts[1].headers.XInertiaVersion = Some(<<"2">>)
        /\ conn[s].parts[1].headers.XInertiaPartialData = Some(InvalidValue)

\* The page text a rendered response carries: its JSON body, or the
\* data-page attribute of its HTML document.
PageText(http) ==
    IF http.headers.ContentType = Some("application/json")
    THEN http.body
    ELSE data_page(http.body)

\* The version field read back from the text of a page.
VersionInPageText(text) ==
    LET k == CHOOSE i \in 1..Len(text) : text[i] = "\"version\":"
        v == SubSeq(text, k + 1, Len(text) - 1)
    IN  IF v = <<"null">> THEN None ELSE Some(SubSeq(v, 2, Len(v) - 1))

\* C17: on every response of a render, the X-Inertia-Version header and the
\* version field of the page in the body agree: both absent/null, or equal.
C17_VersionHeaderMatchesPage ==
    \A s \in Conns :
        Rendered(s) =>
            /\ conn[s].http[1].headers.XInertiaVersion
                  = VersionInPageText(PageText(conn[s].http[1]))
            /\ conn[s].http[1].headers.XInertiaVersion = conn[s].response[1].page.version

\* An HTML response whose header and embedded page both say version 1.
C17_Witness ==
    \E s \in Conns :
        /\ Rendered(s)
        /\ ~ProtocolRequest(s)
        /\ conn[s].http[1].headers.XInertiaVersion = Some(<<"1">>)
        /\ VersionInPageText(data_page(conn[s].http[1].body)) = Some(<<"1">>)

BothPartialHeaders(parts) ==
    /\ parts.headers.XInertiaPartialData # None
    /\ parts.headers.XInertiaPartialComponent # None

\* C18: the partial headers are parsed whatever X-Inertia is: a request that
\* is not a protocol request and carries both partial headers gets partial
\* Some, render passes that partial to the props resolver, and the response
\* is the full-load HTML document.
C18_PartialWithoutXInertia ==
    \A s \in Conns :
        (/\ Extracted(s) /\ HeadersParse(conn[s].parts[1])
         /\ ~ProtocolRequest(s)
         /\ BothPartialHeaders(conn[s].parts[1])) =>
            /\ conn[s].inertia # None
            /\ conn[s].inertia[1].request.partial # None
            /\ conn[s].inertia[1].request.partial[1].component
                  = conn[s].parts[1].headers.XInertiaPartialComponent[1]
            /\ conn[s].args # None =>
                  conn[s].serialize_arg = Some(conn[s].inertia[1].request.partial)
            /\ conn[s].http # None =>
                  /\ conn[s].http[1].headers.ContentType = Some("text/html; charset=utf-8")
                  /\ conn[s].http[1].headers.XInertia = None
                  /\ IsHtmlDocument(conn[s].http[1].body)

\* A full load with both partial headers was rendered as HTML after the
\* resolver was given the partial.
C18_Witness ==
    \E s \in Conns :
        /\ Rendered(s)
        /\ conn[s].parts[1].headers.XInertia = None
        /\ BothPartialHeaders(conn[s].parts[1])
        /\ conn[s].serialize_arg # None
        /\ conn[s].serialize_arg[1] # None
        /\ IsHtmlDocument(conn[s].http[1].body)

\* The number of commas in a text.
CommaCount(text) == Cardinality({i \in 1..Len(text) : text[i] = ","})

\* C19: a parsed partial never has an empty props sequence: a data header
\* with n commas gives n + 1 pieces, empty pieces included, and the empty
\* header gives the one piece "".
C19_PartialPropsNonEmpty ==
    \A s \in Conns :
        (conn[s].inertia # None /\ conn[s].inertia[1].request.partial # None) =>
            LET props == conn[s].inertia[1].request.partial[1].props
                data == conn[s].parts[1].headers.XInertiaPartialData[1]
            IN  /\ Len(props) >= 1
                /\ Len(props) = CommaCount(data) + 1
                /\ data = <<>> => props = << <<>> >>

\* The empty header gave [""], and ",," gave three empty pieces.
C19_Witness ==
    \E s \in Conns :
        /\ conn[s].inertia # None
        /\ conn[s].inertia[1].request.partial # None
        /\ conn[s].parts[1].headers.XInertiaPartialData = Some(<<",", ",">>)
        /\ conn[s].inertia[1].request.partial[1].props = << <<>>, <<>>, <<>> >>

====
